---------------------------- MODULE Spec2Model ----------------------------
(***************************************************************************)
(* Model of the SystemVerilog testbench generator (src/main.py).           *)
(*                                                                         *)
(* Source text, extracted names and every emitted line are TLA+ strings,   *)
(* handled character by character the way the Python code handles them:    *)
(* the regular expressions of parse_system_verilog are modelled as         *)
(* backtracking matchers, f-strings as concatenation, rstrip and join as   *)
(* recursive operators.  main() is the state machine; one action per call  *)
(* it makes.                                                               *)
(***************************************************************************)
EXTENDS Naturals, Sequences, FiniteSets, TLC

VARIABLES
    pc,               \* position of main()
    file,             \* the input file: [status, text]
    fixture,          \* the interface the input file was written from
    design,           \* the dict built by parse_system_verilog
    test_vectors,     \* list returned by generate_test_vectors
    monitor,          \* list returned by monitor_output
    simulation_code,  \* list returned by setup_simulation
    written,          \* text written by save_testbench
    outcome,          \* how the run ended
    calls,            \* functions main() has invoked so far, in order
    san_in,           \* sanitize_signal_name: the identifier under test
    san_once,         \* sanitize_signal_name(san_in)
    san_twice         \* sanitize_signal_name(san_once)

vars == <<pc, file, fixture, design, test_vectors, monitor, simulation_code,
          written, outcome, calls, san_in, san_once, san_twice>>

-----------------------------------------------------------------------------
(* Characters and the Python string methods the code uses.                 *)

LowerLetters ==
    {"a","b","c","d","e","f","g","h","i","j","k","l","m",
     "n","o","p","q","r","s","t","u","v","w","x","y","z"}

UpperToLower ==
    ("A" :> "a") @@ ("B" :> "b") @@ ("C" :> "c") @@ ("D" :> "d") @@
    ("E" :> "e") @@ ("F" :> "f") @@ ("G" :> "g") @@ ("H" :> "h") @@
    ("I" :> "i") @@ ("J" :> "j") @@ ("K" :> "k") @@ ("L" :> "l") @@
    ("M" :> "m") @@ ("N" :> "n") @@ ("O" :> "o") @@ ("P" :> "p") @@
    ("Q" :> "q") @@ ("R" :> "r") @@ ("S" :> "s") @@ ("T" :> "t") @@
    ("U" :> "u") @@ ("V" :> "v") @@ ("W" :> "w") @@ ("X" :> "x") @@
    ("Y" :> "y") @@ ("Z" :> "z")

UpperLetters == DOMAIN UpperToLower

Digits == {"0","1","2","3","4","5","6","7","8","9"}

\* \w of the re module (ASCII part)
WordChars == LowerLetters \cup UpperLetters \cup Digits \cup {"_"}

\* \s of the re module (ASCII part)
SpaceChars == {" ", "\t", "\n", "\r", "\f"}

CharAt(s, i) == SubSeq(s, i, i)

ToLowerChar(c) == IF c \in UpperLetters THEN UpperToLower[c] ELSE c

\* str.lower()
RECURSIVE lower(_)
lower(s) == IF s = "" THEN "" ELSE ToLowerChar(Head(s)) \o lower(Tail(s))

\* str.rstrip(chars)
RECURSIVE rstrip(_, _)
rstrip(s, chars) ==
    IF s # "" /\ CharAt(s, Len(s)) \in chars
    THEN rstrip(SubSeq(s, 1, Len(s) - 1), chars)
    ELSE s

\* sep.join(list)
RECURSIVE join(_, _)
join(sep, list) ==
    IF list = <<>> THEN ""
    ELSE IF Len(list) = 1 THEN list[1]
    ELSE list[1] \o sep \o join(sep, Tail(list))

\* sub in s
RECURSIVE contains(_, _)
contains(s, sub) ==
    IF Len(s) < Len(sub) THEN FALSE
    ELSE IF SubSeq(s, 1, Len(sub)) = sub THEN TRUE
    ELSE contains(Tail(s), sub)

-----------------------------------------------------------------------------
(* Keyword registry and sanitizer.                                         *)

RESERVED_KEYWORDS ==
    {"always", "and", "assign", "automatic", "begin", "buf", "bufif0",
     "bufif1", "case", "casex", "casez", "cmos", "deassign", "default",
     "defparam", "disable", "edge", "else", "end", "endcase", "endfunction",
     "endgenerate", "endmodule", "endprimitive", "endspecify", "endtable",
     "endtask", "event", "for", "force", "forever", "fork", "function",
     "generate", "genvar", "highz0", "highz1", "if", "initial", "inout",
     "input", "integer", "join", "large", "macromodule", "medium", "module",
     "nand", "negedge", "nmos", "nor", "not", "notif0", "notif1", "or",
     "output", "parameter", "pmos", "posedge", "primitive", "pull0", "pull1",
     "pulldown", "pullup", "rcmos", "reg", "release", "repeat", "rnmos",
     "rpmos", "rtran", "rtranif0", "rtranif1", "scalared", "signed", "small",
     "specify", "specparam", "strong0", "strong1", "supply0", "supply1",
     "table", "task", "time", "tran", "tranif0", "tranif1", "tri", "tri0",
     "tri1", "triand", "trior", "trireg", "unsigned", "vectored", "wait",
     "wand", "weak0", "weak1", "while", "wire", "wor", "xnor", "xor"}

\* a sanitizer whose suffix is a digit: "tri" becomes the keyword "tri1"
sanitize_digit_suffix(signal_name) ==
    IF signal_name \in RESERVED_KEYWORDS
    THEN signal_name \o "1"
    ELSE signal_name

sanitize_signal_name(signal_name) ==
    IF signal_name \in RESERVED_KEYWORDS
    THEN signal_name \o "_sig"
    ELSE signal_name

-----------------------------------------------------------------------------
(* The regular expressions of parse_system_verilog, matched with           *)
(* re.IGNORECASE.  A failed match is [ok |-> FALSE]; a successful one       *)
(* carries the index after the match and the captured groups.               *)

NoMatch == [ok |-> FALSE]

IsWordAt(text, i) == i >= 1 /\ i <= Len(text) /\ CharAt(text, i) \in WordChars

IsSpaceAt(text, i) == i >= 1 /\ i <= Len(text) /\ CharAt(text, i) \in SpaceChars

\* \b at the position before character p
WordBoundary(text, p) == IsWordAt(text, p - 1) # IsWordAt(text, p)

\* a literal at p, letter case ignored
LitAt(text, p, lit) ==
    /\ p + Len(lit) - 1 <= Len(text)
    /\ lower(SubSeq(text, p, p + Len(lit) - 1)) = lit

\* greedy \s* from p: the index of the first non-space character
RECURSIVE SkipSpace(_, _)
SkipSpace(text, p) ==
    IF IsSpaceAt(text, p) THEN SkipSpace(text, p + 1) ELSE p

\* greedy \w* from p: the index of the first non-word character
RECURSIVE WordEnd(_, _)
WordEnd(text, p) ==
    IF IsWordAt(text, p) THEN WordEnd(text, p + 1) ELSE p

\* an alternation of literals tried in order: the length matched at p, or 0
RECURSIVE AltLen(_, _, _)
AltLen(text, p, alts) ==
    IF alts = <<>> THEN 0
    ELSE IF LitAt(text, p, Head(alts)) THEN Len(Head(alts))
    ELSE AltLen(text, p, Tail(alts))

\* \s*(\w+) from p, with the range already captured as width
NameTail(text, p, width) ==
    LET n == SkipSpace(text, p)
        e == WordEnd(text, n)
    IN  IF e > n
        THEN [ok |-> TRUE, end |-> e, width |-> width, name |-> SubSeq(text, n, e - 1)]
        ELSE NoMatch

\* (\[.*?\]) opened at r, the lazy .*? now reaching up to k - 1: the first
\* closing bracket after which \s*(\w+) matches ends the range; . stops at
\* a line break
RECURSIVE RangeFrom(_, _, _)
RangeFrom(text, r, k) ==
    IF k > Len(text) THEN NoMatch
    ELSE IF CharAt(text, k) = "]" /\ NameTail(text, k + 1, SubSeq(text, r, k)).ok
    THEN NameTail(text, k + 1, SubSeq(text, r, k))
    ELSE IF CharAt(text, k) = "\n" THEN NoMatch
    ELSE RangeFrom(text, r, k + 1)

\* \s*(\[.*?\])?\s*(\w+) from q
SignalTail(text, q) ==
    LET r == SkipSpace(text, q)
    IN  IF r <= Len(text) /\ CharAt(text, r) = "["
        THEN RangeFrom(text, r, r + 1)
        ELSE NameTail(text, r, "")

\* \b(input|output|inout)\s+(?:wire|reg|logic)?\s*(\[.*?\])?\s*(\w+) at p
SignalMatchAt(text, p) ==
    LET dlen == AltLen(text, p, <<"input", "output", "inout">>)
        q    == SkipSpace(text, p + dlen)
        slen == AltLen(text, q, <<"wire", "reg", "logic">>)
        withStorage == SignalTail(text, q + slen)
        tail == IF slen > 0 /\ withStorage.ok THEN withStorage
                ELSE SignalTail(text, q)
    IN  IF WordBoundary(text, p) /\ dlen > 0 /\ q > p + dlen /\ tail.ok
        THEN [ok |-> TRUE, end |-> tail.end,
              groups |-> <<SubSeq(text, p, p + dlen - 1), tail.width, tail.name>>]
        ELSE NoMatch

\* \bmodule\s+(\w+)\s*\( at p
ModuleMatchAt(text, p) ==
    LET q == SkipSpace(text, p + 6)
        e == WordEnd(text, q)
        t == SkipSpace(text, e)
    IN  IF /\ WordBoundary(text, p)
           /\ LitAt(text, p, "module")
           /\ q > p + 6
           /\ e > q
           /\ t <= Len(text)
           /\ CharAt(text, t) = "("
        THEN [ok |-> TRUE, end |-> t + 1, groups |-> SubSeq(text, q, e - 1)]
        ELSE NoMatch

\* re.findall: the groups of the successive non-overlapping matches
RECURSIVE FindSignals(_, _)
FindSignals(text, p) ==
    IF p > Len(text) THEN <<>>
    ELSE LET m == SignalMatchAt(text, p)
         IN  IF m.ok THEN <<m.groups>> \o FindSignals(text, m.end)
             ELSE FindSignals(text, p + 1)

RECURSIVE FindModules(_, _)
FindModules(text, p) ==
    IF p > Len(text) THEN <<>>
    ELSE LET m == ModuleMatchAt(text, p)
         IN  IF m.ok THEN <<m.groups>> \o FindModules(text, m.end)
             ELSE FindModules(text, p + 1)


-----------------------------------------------------------------------------
(* parse_system_verilog, after the file has been read.  main() reads only  *)
(* design['modules'] and design['signals']; design['parameters'] is never  *)
(* read by the pipeline and is left out.                                    *)

EmptyDesign == [modules |-> <<>>, signals |-> <<>>]

NotReserved(s) == s[3] \notin RESERVED_KEYWORDS

parse_system_verilog(content) ==
    LET modules == FindModules(content, 1)
        signals == SelectSeq(FindSignals(content, 1), NotReserved)
    IN  [modules |-> modules,
         signals |-> [i \in 1..Len(signals) |->
                        <<signals[i][1], signals[i][2],
                          sanitize_signal_name(signals[i][3])>>]]

-----------------------------------------------------------------------------
(* generate_test_vectors                                                   *)

IsDriven(signal_type) == signal_type \in {"input", "inout"}

\* a clock test that compares the name as written
IsClockCaseSensitive(signal_name) == contains(signal_name, "clk")

IsClock(signal_name) == contains(lower(signal_name), "clk")

RECURSIVE InitLines(_)
InitLines(signals) ==
    IF signals = <<>> THEN <<>>
    ELSE (IF IsDriven(Head(signals)[1])
          THEN <<"    " \o Head(signals)[3] \o " = 0;">>
          ELSE <<>>) \o InitLines(Tail(signals))

RECURSIVE ToggleLines(_)
ToggleLines(signals) ==
    IF signals = <<>> THEN <<>>
    ELSE (IF IsDriven(Head(signals)[1]) /\ IsClock(Head(signals)[3])
          THEN <<"    forever #5 " \o Head(signals)[3] \o " = ~"
                   \o Head(signals)[3] \o ";">>
          ELSE <<>>) \o ToggleLines(Tail(signals))

generate_test_vectors(signals) ==
    <<"  initial begin", "    // Initialize inputs and apply test vectors">>
    \o InitLines(signals)
    \o <<"    // Apply test vectors", "    #10;", "    res_n = 1;", "    #10;">>
    \o ToggleLines(signals)
    \o <<"  end">>

-----------------------------------------------------------------------------
(* monitor_output                                                          *)

\* the last element left as it is
KeepTrailingComma(last) == last

StripTrailingComma(last) == rstrip(last, {","})

monitor_output(signals) ==
    LET fields == <<"  initial begin", "    $monitor(\"At time %0t:">>
                  \o [i \in 1..Len(signals) |-> " " \o signals[i][3] \o " = %b,"]
        stripped == [fields EXCEPT ![Len(fields)] = StripTrailingComma(@)]
    IN  stripped
        \o <<"\", $time">>
        \o [i \in 1..Len(signals) |-> ", " \o signals[i][3]]
        \o <<");", "  end">>

-----------------------------------------------------------------------------
(* setup_simulation                                                        *)

\* a close that strips the comma only
CloseInstantiationCommaOnly(last) == rstrip(last, {","}) \o "\n  );\n"

CloseInstantiation(last) == rstrip(last, {",", "\n"}) \o "\n  );\n"

Declaration(signal) ==
    LET signal_type_decl == IF signal[1] \in {"input", "inout"} THEN "reg" ELSE "wire"
    IN  IF signal[2] # ""
        THEN "  " \o signal_type_decl \o " " \o signal[2] \o " " \o signal[3] \o ";\n"
        ELSE "  " \o signal_type_decl \o " " \o signal[3] \o ";\n"

\* what one pass of the loop over modules appends
TestbenchUnit(module, signals, vectors, mon) ==
    LET upToBindings ==
            <<"module " \o module \o "_tb;\n",
              "  // Declare variables for the inputs and outputs of the DUT (Device Under Test)\n">>
            \o [i \in 1..Len(signals) |-> Declaration(signals[i])]
            \o <<"\n  // Instantiate the DUT\n", "  " \o module \o " uut (\n">>
            \o [i \in 1..Len(signals) |->
                  "    ." \o signals[i][3] \o "(" \o signals[i][3] \o "),\n"]
        closed == [upToBindings EXCEPT ![Len(upToBindings)] = CloseInstantiation(@)]
    IN  closed
        \o <<"\n  // Test vectors\n">> \o vectors
        \o <<"\n  // Monitor changes\n">> \o mon
        \o <<"  initial begin\n    #200 $finish;\n  end\n", "endmodule\n">>

RECURSIVE AllUnits(_, _, _, _)
AllUnits(modules, signals, vectors, mon) ==
    IF modules = <<>> THEN <<>>
    ELSE TestbenchUnit(Head(modules), signals, vectors, mon)
         \o AllUnits(Tail(modules), signals, vectors, mon)

\* The first element is the timescale directive; the grave accent that opens
\* it in the source cannot be written in a TLA+ string and is left out.
setup_simulation(modules, signals, vectors, mon) ==
    <<"timescale 1ns / 1ps\n">> \o AllUnits(modules, signals, vectors, mon)

\* the text save_testbench writes
save_testbench(code) == join("\n", code)

analyze_results == [pass |-> TRUE, failures |-> <<>>]


-----------------------------------------------------------------------------
(* Input files.  A fixture is an interface (module names and ports) and     *)
(* the source text written from it, either with the ports declared inline   *)
(* in the header or named in the header and declared by statements in the   *)
(* body.                                                                    *)

MaxPorts == 3      \* ports of a source's modules, all together
MaxModules == 2    \* module headers in one source

Port(dir, storage, width, name) ==
    [dir |-> dir, storage |-> storage, width |-> width, name |-> name]

PortPool ==
    {Port("input", "wire", "", "clk"),
     Port("input", "reg", "[7:0]", "data_in"),
     Port("output", "wire", "[7:0]", "data_out"),
     Port("inout", "logic", "", "CLK"),
     Port("INPUT", "", "", "clk_en"),
     Port("input", "", "", "regif"),
     Port("input", "", "", "res_n"),
     Port("output", "", "", "clk_o")}

\* ports of the modules of a source with several modules
SharedPool ==
    {Port("input", "wire", "", "clk"),
     Port("output", "wire", "[7:0]", "data_out"),
     Port("input", "", "", "res_n")}

ModuleNames == <<"alu", "fifo", "uart", "dec">>

\* the lists of n distinct ports of a pool
DistinctLists(pool, n) ==
    {l \in [1..n -> pool] : \A i, j \in 1..n : i # j => l[i] # l[j]}

PortLists(pool, max) == UNION {DistinctLists(pool, n) : n \in 0..max}

Identity(n) == [i \in 1..n |-> i]

Reversed(n) == [i \in 1..n |-> n + 1 - i]

\* [direction] [storage-class] [bit-range] ident
RenderEntry(p) ==
    p.dir
    \o (IF p.storage # "" THEN " " \o p.storage ELSE "")
    \o (IF p.width # "" THEN " " \o p.width ELSE "")
    \o " " \o p.name

RenderInline(name, ports) ==
    "module " \o name \o " ("
    \o join(", ", [i \in 1..Len(ports) |-> RenderEntry(ports[i])])
    \o ");\nendmodule\n"

\* the body statements in the order given: order[k] is the port declared by
\* the k-th statement
RenderDeclared(name, ports, order) ==
    "module " \o name \o " ("
    \o join(", ", [i \in 1..Len(ports) |-> ports[i].name])
    \o ");\n"
    \o join("", [k \in 1..Len(ports) |-> "  " \o RenderEntry(ports[order[k]]) \o ";\n"])
    \o "endmodule\n"

Fixture(form, mods, order, text) ==
    [form |-> form, mods |-> mods, order |-> order, text |-> text]

Mod(name, ports) == [name |-> name, ports |-> ports]

\* texts in which no module header is to be found
NoModuleTexts == {"", "input wire clk;\n", "module top;\nendmodule\n"}

NoModuleSources == {Fixture("none", <<>>, <<>>, t) : t \in NoModuleTexts}

InlineSources ==
    {Fixture("inline", <<Mod("dut", ps)>>, Identity(Len(ps)), RenderInline("dut", ps)) :
        ps \in PortLists(PortPool, MaxPorts)}

DeclaredSources ==
    UNION {{Fixture("declared", <<Mod("dut", ps)>>, ord, RenderDeclared("dut", ps, ord)) :
                ord \in {Identity(Len(ps)), Reversed(Len(ps))}} :
           ps \in PortLists(PortPool, MaxPorts)}

\* the port lists of k modules that hold at most budget ports together
RECURSIVE PortListsOf(_, _)
PortListsOf(k, budget) ==
    IF k = 0 THEN {<<>>}
    ELSE UNION {{<<ps>> \o rest : rest \in PortListsOf(k - 1, budget - Len(ps))} :
                ps \in PortLists(SharedPool, budget)}

SeveralModules(lists) == [i \in 1..Len(lists) |-> Mod(ModuleNames[i], lists[i])]

SeveralSources ==
    UNION {{Fixture("inline", SeveralModules(lists), <<>>,
                    join("", [i \in 1..k |-> RenderInline(ModuleNames[i], lists[i])])) :
                lists \in PortListsOf(k, MaxPorts)} :
           k \in 2..MaxModules}

Sources == NoModuleSources \cup InlineSources \cup DeclaredSources \cup SeveralSources

\* A readable file is one that open() and read() decode, as UTF-16 or, after
\* the UnicodeError of the first attempt, as UTF-8.  A missing file raises
\* FileNotFoundError, an unreadable one another OSError, and an undecodable
\* one UnicodeError from the first read and again from the second.
FileStatuses == {"readable", "missing", "unreadable", "undecodable"}

NoFixture == Fixture("none", <<>>, <<>>, "")

-----------------------------------------------------------------------------
(* main()                                                                  *)

Init ==
    /\ pc = "start"
    /\ \/ \E s \in Sources :
            /\ fixture = s
            /\ file = [status |-> "readable", text |-> s.text]
       \/ \E st \in FileStatuses \ {"readable"} :
            /\ fixture = NoFixture
            /\ file = [status |-> st, text |-> ""]
    /\ design = EmptyDesign
    /\ test_vectors = <<>>
    /\ monitor = <<>>
    /\ simulation_code = <<>>
    /\ written = ""
    /\ outcome = "running"
    /\ calls = <<>>
    /\ san_in = ""
    /\ san_once = ""
    /\ san_twice = ""

sanvars == <<san_in, san_once, san_twice>>

\* design = parse_system_verilog(filepath): the file is read and parsed, or
\* the empty design comes back after FileNotFoundError or another error
ParseReturns ==
    /\ pc = "start"
    /\ file.status \in {"readable", "missing", "unreadable"}
    /\ design' = IF file.status = "readable"
                 THEN parse_system_verilog(file.text)
                 ELSE EmptyDesign
    /\ calls' = Append(calls, "parse_system_verilog")
    /\ pc' = "parsed"
    /\ UNCHANGED <<file, fixture, test_vectors, monitor, simulation_code,
                   written, outcome, sanvars>>

\* the second read, inside the UnicodeError handler, raises UnicodeDecodeError:
\* no handler of the same try statement catches it and main() has none
ParseRaises ==
    /\ pc = "start"
    /\ file.status = "undecodable"
    /\ calls' = Append(calls, "parse_system_verilog")
    /\ outcome' = "uncaught_exception"
    /\ pc' = "crashed"
    /\ UNCHANGED <<file, fixture, design, test_vectors, monitor,
                   simulation_code, written, sanvars>>

\* if not design['modules']: print(...); return
NoModulesExit ==
    /\ pc = "parsed"
    /\ design.modules = <<>>
    /\ outcome' = "no_modules_found"
    /\ pc' = "done"
    /\ UNCHANGED <<file, fixture, design, test_vectors, monitor,
                   simulation_code, written, calls, sanvars>>

GenerateTestVectors ==
    /\ pc = "parsed"
    /\ design.modules # <<>>
    /\ test_vectors' = generate_test_vectors(design.signals)
    /\ calls' = Append(calls, "generate_test_vectors")
    /\ pc' = "vectors"
    /\ UNCHANGED <<file, fixture, design, monitor, simulation_code, written,
                   outcome, sanvars>>

MonitorOutput ==
    /\ pc = "vectors"
    /\ monitor' = monitor_output(design.signals)
    /\ calls' = Append(calls, "monitor_output")
    /\ pc' = "monitored"
    /\ UNCHANGED <<file, fixture, design, test_vectors, simulation_code,
                   written, outcome, sanvars>>

SetupSimulation ==
    /\ pc = "monitored"
    /\ simulation_code' = setup_simulation(design.modules, design.signals,
                                           test_vectors, monitor)
    /\ calls' = Append(calls, "setup_simulation")
    /\ pc' = "assembled"
    /\ UNCHANGED <<file, fixture, design, test_vectors, monitor, written,
                   outcome, sanvars>>

SaveTestbench ==
    /\ pc = "assembled"
    /\ written' = save_testbench(simulation_code)
    /\ calls' = Append(calls, "save_testbench")
    /\ pc' = "saved"
    /\ UNCHANGED <<file, fixture, design, test_vectors, monitor,
                   simulation_code, outcome, sanvars>>

AnalyzeResults ==
    /\ pc = "saved"
    /\ analyze_results.pass
    /\ calls' = Append(calls, "analyze_results")
    /\ outcome' = "testbench_generated"
    /\ pc' = "done"
    /\ UNCHANGED <<file, fixture, design, test_vectors, monitor,
                   simulation_code, written, sanvars>>

Next ==
    \/ ParseReturns
    \/ ParseRaises
    \/ NoModulesExit
    \/ GenerateTestVectors
    \/ MonitorOutput
    \/ SetupSimulation
    \/ SaveTestbench
    \/ AnalyzeResults

Spec == Init /\ [][Next]_vars

-----------------------------------------------------------------------------
(* sanitize_signal_name applied once and twice to an identifier.           *)

PlainNames == {"clk", "CLK", "data_in", "res_n", "regif", "_sig", "sig", "Wire", "x1"}

Identifiers ==
    RESERVED_KEYWORDS
    \cup {k \o "_sig" : k \in RESERVED_KEYWORDS}
    \cup PlainNames

SanInit ==
    /\ pc = "san_start"
    /\ san_in \in Identifiers
    /\ san_once = ""
    /\ san_twice = ""
    /\ file = [status |-> "missing", text |-> ""]
    /\ fixture = NoFixture
    /\ design = EmptyDesign
    /\ test_vectors = <<>>
    /\ monitor = <<>>
    /\ simulation_code = <<>>
    /\ written = ""
    /\ outcome = "running"
    /\ calls = <<>>

pipevars == <<file, fixture, design, test_vectors, monitor, simulation_code,
              written, outcome, calls>>

SanitizeOnce ==
    /\ pc = "san_start"
    /\ san_once' = sanitize_signal_name(san_in)
    /\ pc' = "san_once"
    /\ UNCHANGED <<san_in, san_twice, pipevars>>

SanitizeTwice ==
    /\ pc = "san_once"
    /\ san_twice' = sanitize_signal_name(san_once)
    /\ pc' = "san_twice"
    /\ UNCHANGED <<san_in, san_once, pipevars>>

SanNext == SanitizeOnce \/ SanitizeTwice

SanSpec == SanInit /\ [][SanNext]_vars


-----------------------------------------------------------------------------
(* Properties.  What the emitted lists are compared with is written from    *)
(* the statements of the specification, not from the operators above.       *)

Called(f) == \E i \in DOMAIN calls : calls[i] = f

RunEnded == pc \in {"done", "crashed"}

Generators ==
    {"generate_test_vectors", "monitor_output", "setup_simulation", "save_testbench"}

Names(signals) == [i \in 1..Len(signals) |-> signals[i][3]]

\* one pass of setup_simulation's loop appends this many elements
UnitLength == 8 + 2 * Len(design.signals) + Len(test_vectors) + Len(monitor)

\* the index of the element before unit u
UnitBase(u) == 1 + (u - 1) * UnitLength

UnitHeader(u) == simulation_code[UnitBase(u) + 1]

\* the elements between the declarations comment and the instantiation comment
UnitDeclarations(u) ==
    SubSeq(simulation_code, UnitBase(u) + 3, UnitBase(u) + 2 + Len(design.signals))

\* the text from the instantiation header to the closing parenthesis
UnitInstantiation(u) ==
    join("", SubSeq(simulation_code,
                    UnitBase(u) + 4 + Len(design.signals),
                    UnitBase(u) + 4 + 2 * Len(design.signals)))

\* C1: when extraction finds no module header (an unreadable or missing file
\* included), the run ends in the 'no modules found' outcome and none of
\* generate_test_vectors, monitor_output, setup_simulation, save_testbench
\* is invoked; a module with zero ports does not end that way.
C1_NoModulesEndsRun ==
    /\ (Called("parse_system_verilog") /\ design.modules = <<>>)
          => \A f \in Generators : ~Called(f)
    /\ (RunEnded /\ design.modules = <<>>) => outcome = "no_modules_found"
    /\ (RunEnded /\ design.modules # <<>>) => outcome # "no_modules_found"

\* the signals a header's ports are expected to give
HeaderSignals(ports) ==
    [i \in 1..Len(ports) |-> <<ports[i].dir, ports[i].width, ports[i].name>>]

\* C2: a header with N inline-declared ports gives exactly N signals, in
\* port order, each with the direction and width written in the header.
C2_InlinePortsExtracted ==
    (/\ Called("parse_system_verilog")
     /\ file.status = "readable"
     /\ fixture.form = "inline"
     /\ Len(fixture.mods) = 1)
    => design.signals = HeaderSignals(fixture.mods[1].ports)

\* C3: an interface written in header-then-declared form, with the body
\* statements in any order, gives the same signal sequence as the same
\* interface written inline.
C3_DeclaredEqualsInline ==
    (Called("parse_system_verilog") /\ fixture.form = "declared")
    => design.signals =
         parse_system_verilog(
             RenderInline(fixture.mods[1].name, fixture.mods[1].ports)).signals

ClaimedDeclaration(signal) ==
    "  "
    \o (IF lower(signal[1]) \in {"input", "inout"} THEN "reg" ELSE "wire")
    \o (IF signal[2] # "" THEN " " \o signal[2] ELSE "")
    \o " " \o signal[3] \o ";\n"

\* C4: every extracted signal is declared 'reg' when its direction, read
\* independent of letter case, is input or inout and 'wire' when it is
\* output, with the parsed bit-range verbatim before the name.
C4_RegOrWireByDirection ==
    Called("setup_simulation")
    => \A u \in 1..Len(design.modules) :
          UnitDeclarations(u) =
            [i \in 1..Len(design.signals) |-> ClaimedDeclaration(design.signals[i])]

ClaimedInstantiation(module, signals) ==
    "  " \o module \o " uut ("
    \o (IF signals # <<>>
        THEN "\n" \o join(",\n", [i \in 1..Len(signals) |->
                                    "    ." \o signals[i][3] \o "(" \o signals[i][3] \o ")"])
        ELSE "")
    \o "\n  );\n"

\* C5: the instantiation of each module holds one '.name(name)' binding per
\* signal, in signal order, separated by commas, with no comma before the
\* closing ');', and the header line intact when there is no signal.
C5_BindingsJoinedWithoutTrailingComma ==
    Called("setup_simulation")
    => \A u \in 1..Len(design.modules) :
          UnitInstantiation(u) = ClaimedInstantiation(design.modules[u], design.signals)

C5_Witness ==
    /\ Called("setup_simulation")
    /\ Len(design.signals) = 2
    /\ UnitInstantiation(1) = "  dut uut (\n    .clk(clk),\n    .data_out(data_out)\n  );\n"

HasResetInput(signals) ==
    \E i \in DOMAIN signals :
        lower(signals[i][1]) \in {"input", "inout"} /\ signals[i][3] = "res_n"

\* C6: when no input signal is named res_n, the stimulus block holds no
\* assignment to res_n.
C6_NoResetNoAssignment ==
    (Called("generate_test_vectors") /\ ~HasResetInput(design.signals))
    => \A j \in DOMAIN test_vectors : ~contains(test_vectors[j], "res_n =")

ToggleStatement(name) == "    forever #5 " \o name \o " = ~" \o name \o ";"

\* the statements between the second settle delay and the closing 'end'
LastDelay ==
    CHOOSE i \in DOMAIN test_vectors :
        /\ test_vectors[i] = "    #10;"
        /\ \A j \in DOMAIN test_vectors : j > i => test_vectors[j] # "    #10;"

EmittedToggles == SubSeq(test_vectors, LastDelay + 1, Len(test_vectors) - 1)

ClockAsWritten(s) == s[1] \in {"input", "inout"} /\ contains(s[3], "clk")

ClockAnyCase(s) == s[1] \in {"input", "inout"} /\ contains(lower(s[3]), "clk")

RECURSIVE count(_, _)
count(s, sub) ==
    IF Len(s) < Len(sub) THEN 0
    ELSE (IF SubSeq(s, 1, Len(sub)) = sub THEN 1 ELSE 0) + count(Tail(s), sub)

EndsWith(s, c) == s # "" /\ CharAt(s, Len(s)) = c

TimeIndex == CHOOSE i \in DOMAIN monitor : monitor[i] = "\", $time"

\* from the $monitor call to the last character inside the string literal
FormatString == join("", SubSeq(monitor, 2, TimeIndex - 1))

\* the elements after $time and before the closing ');'
ValueArguments == SubSeq(monitor, TimeIndex + 1, Len(monitor) - 2)

\* C8: the format string of the $monitor statement does not end in ',', it
\* holds as many '%b' fields as there are value arguments after $time, and
\* both list the signals in declaration order.
C8_MonitorWellFormed ==
    Called("monitor_output")
    => /\ ~EndsWith(FormatString, ",")
       /\ count(FormatString, "%b") = Len(ValueArguments)
       /\ FormatString =
            "    $monitor(\"At time %0t:"
            \o join(",", [i \in 1..Len(design.signals) |->
                            " " \o design.signals[i][3] \o " = %b"])
       /\ ValueArguments =
            [i \in 1..Len(design.signals) |-> ", " \o design.signals[i][3]]

C8_Witness ==
    /\ Called("monitor_output")
    /\ design.signals = <<>>
    /\ FormatString = "    $monitor(\"At time %0t:"

\* C9: sanitizing twice gives what sanitizing once gives, and a reserved
\* keyword k becomes k followed by '_sig', which is not a reserved keyword.
C9_SanitizeIdempotent ==
    pc = "san_twice"
    => /\ san_twice = san_once
       /\ san_in \in RESERVED_KEYWORDS
            => (san_once = san_in \o "_sig" /\ san_once \notin RESERVED_KEYWORDS)

C9_Witness ==
    pc = "san_twice" /\ san_in = "tri" /\ san_once = "tri_sig" /\ san_twice = "tri_sig"

\* C10: with several module headers there is one '<module>_tb' unit per
\* module, in discovery order, and the unit of a module declares and binds
\* exactly the ports of that module's own header.
C10_UnitsOwnTheirPorts ==
    (Called("setup_simulation") /\ Len(fixture.mods) >= 2)
    => /\ Len(design.modules) = Len(fixture.mods)
       /\ \A u \in 1..Len(fixture.mods) :
            LET own == parse_system_verilog(
                           RenderInline(fixture.mods[u].name, fixture.mods[u].ports)).signals
            IN  /\ UnitHeader(u) = "module " \o fixture.mods[u].name \o "_tb;\n"
                /\ UnitDeclarations(u) =
                     [i \in 1..Len(own) |-> ClaimedDeclaration(own[i])]
                /\ UnitInstantiation(u) =
                     ClaimedInstantiation(fixture.mods[u].name, own)

=============================================================================
